---- MODULE Spec2Model ----
(***************************************************************************)
(* Model of pkg/jx/cmd/step_create_task.go: the compilation of a build     *)
(* pack pipeline (lifecycles of nested steps) into a Knative Pipeline Task *)
(* (an ordered list of containers).                                        *)
(*                                                                         *)
(* Strings the code inspects character by character (directories, names of *)
(* environment variables) are sequences of one-character strings.  Strings *)
(* the code only compares or copies (container names, images, kinds) are   *)
(* TLA+ strings.  A step's command is a sequence too: <<>> is the empty    *)
(* command, and the inputs give every executable step a command of its own *)
(* (its position in the pipeline), so an emitted container names its step. *)
(***************************************************************************)
EXTENDS Integers, Sequences, FiniteSets, TLC

VARIABLES
    pc,                   \* "start" -> "loaded" -> "done"
    Pack,                 \* o.Pack: the build pack (language) name
    PipelineKind,         \* o.PipelineKind
    OutputFile,           \* o.OutputFile ("" = render to the console)
    pipelineConfig,       \* the merged *jenkinsfile.PipelineConfig
    cmData,               \* Data of the pod template ConfigMap
    PodTemplates,         \* o.PodTemplates
    MissingPodTemplates,  \* o.MissingPodTemplates
    result,               \* what generateTask returned (or that it panicked)
    printed,              \* tasks rendered to the console (log.Infof)
    written               \* tasks written to OutputFile (ioutil.WriteFile)

vars == <<pc, Pack, PipelineKind, OutputFile, pipelineConfig, cmData,
          PodTemplates, MissingPodTemplates, result, printed, written>>

-----------------------------------------------------------------------------
(* Go strings and path/filepath *)

Slash == "/"

\* "/workspace"
WorkspaceRoot == <<"/", "w", "o", "r", "k", "s", "p", "a", "c", "e">>

\* strings.HasPrefix
HasPrefix(s, prefix) ==
    /\ Len(s) >= Len(prefix)
    /\ SubSeq(s, 1, Len(prefix)) = prefix

\* strings.TrimPrefix
TrimPrefix(s, prefix) ==
    IF HasPrefix(s, prefix) THEN SubSeq(s, Len(prefix) + 1, Len(s)) ELSE s

\* filepath.IsAbs (unix)
IsAbs(path) == HasPrefix(path, <<Slash>>)

\* the elements of a path between its separators
RECURSIVE SplitPath(_, _)
SplitPath(path, cur) ==
    IF path = <<>> THEN <<cur>>
    ELSE IF Head(path) = Slash THEN <<cur>> \o SplitPath(Tail(path), <<>>)
    ELSE SplitPath(Tail(path), Append(cur, Head(path)))

RECURSIVE CleanElements(_, _, _)
CleanElements(elems, rooted, out) ==
    IF elems = <<>> THEN out
    ELSE LET e == Head(elems)
             rest == Tail(elems)
         IN  IF e = <<>> \/ e = <<".">> THEN CleanElements(rest, rooted, out)
             ELSE IF e = <<".", ".">> THEN
                 IF out # <<>> /\ out[Len(out)] # <<".", ".">>
                 THEN CleanElements(rest, rooted, SubSeq(out, 1, Len(out) - 1))
                 ELSE IF rooted THEN CleanElements(rest, rooted, out)
                 ELSE CleanElements(rest, rooted, Append(out, e))
             ELSE CleanElements(rest, rooted, Append(out, e))

RECURSIVE JoinElements(_)
JoinElements(elems) ==
    IF elems = <<>> THEN <<>>
    ELSE IF Len(elems) = 1 THEN elems[1]
    ELSE elems[1] \o <<Slash>> \o JoinElements(Tail(elems))

\* filepath.Clean (unix): the shortest equivalent path by lexical processing
Clean(path) ==
    LET rooted == IsAbs(path)
        body == JoinElements(CleanElements(SplitPath(path, <<>>), rooted, <<>>))
    IN  IF rooted THEN <<Slash>> \o body
        ELSE IF body = <<>> THEN <<".">>
        ELSE body

\* filepath.Join of two elements: empty elements are ignored, the result is Cleaned
Join(a, b) ==
    IF a = <<>> /\ b = <<>> THEN <<>>
    ELSE IF a = <<>> THEN Clean(b)
    ELSE IF b = <<>> THEN Clean(a)
    ELSE Clean(a \o <<Slash>> \o b)

-----------------------------------------------------------------------------
(* Constants of the package and of the packages it imports *)

\* defaultContainerName: the pod template used when nothing names a container
defaultContainerName == "maven"

\* jenkinsfile.PipelineKindRelease, PipelineKindPullRequest, PipelineKindFeature
PipelineKindRelease == "release"
PipelineKindPullRequest == "pull-request"
PipelineKindFeature == "feature"

\* jenkinsfile.PipelineKinds
PipelineKinds == <<PipelineKindRelease, PipelineKindPullRequest, PipelineKindFeature>>

\* the image every generated step runs in
RunnerImage == "jenkinsxio/jx:latest"

\* the prefixes of the environment variables that are dropped
GitPrefix == <<"G", "I", "T", "_">>
DockerPrefix == <<"D", "O", "C", "K", "E", "R", "_">>
XdgPrefix == <<"X", "D", "G", "_">>

-----------------------------------------------------------------------------
(* Values *)

\* a nil pointer (*corev1.Pod, *PipelineLifecycles, *PipelineLifecycle)
Nil == [nil |-> TRUE]

IsNil(p) == p.nil

\* the value of an expression evaluated once: Only({e(r) : r \in {x}}) is e(x)
Only(S) == CHOOSE x \in S : TRUE

\* error values; Panic is the run ending in a nil pointer dereference
NoErr == [type |-> "nil"]
Panic == [type |-> "panic", what |-> "nil pointer dereference"]
ErrNoContainers(containerName) ==
    [type |-> "error", msg |-> "No Containers for pod template", name |-> containerName]
ErrUnknownKind(kind) ==
    [type |-> "error", msg |-> "Unknown pipeline kind", kind |-> kind,
     supported |-> PipelineKinds]

\* kube.ToValidName on "jx-task-" + languageName + "-" + templateKind: lower case,
\* for the pack names the inputs use
LowerCase(name) ==
    CASE name = "Go" -> "go"
      [] name = "JavaScript" -> "javascript"
      [] OTHER -> name

ToValidName(parts) == [i \in DOMAIN parts |-> LowerCase(parts[i])]

-----------------------------------------------------------------------------
(* removeUnnecessaryVolumes, removeUnnecessaryEnvVars *)

removeUnnecessaryVolumes(container) ==
    [container EXCEPT !.volumeMounts = <<>>]

\* mutant: the XDG_ prefix is not tested
DroppedEnvNameNoXdg(name) ==
    HasPrefix(name, GitPrefix) \/ HasPrefix(name, DockerPrefix)

DroppedEnvName(name) ==
    HasPrefix(name, GitPrefix) \/ HasPrefix(name, DockerPrefix) \/ HasPrefix(name, XdgPrefix)

\* the loop over container.Env, appending what is kept to a fresh slice
RECURSIVE KeepEnvVars(_, _)
KeepEnvVars(env, envVars) ==
    IF env = <<>> THEN envVars
    ELSE IF DroppedEnvName(Head(env).name) THEN KeepEnvVars(Tail(env), envVars)
    ELSE KeepEnvVars(Tail(env), Append(envVars, Head(env)))

removeUnnecessaryEnvVars(container) ==
    [container EXCEPT !.env = KeepEnvVars(container.env, <<>>)]

-----------------------------------------------------------------------------
(* createSteps *)

\* o.PodTemplates[containerName]: nil when the map has no such key
PodTemplateOf(o, containerName) ==
    IF containerName \in DOMAIN o.PodTemplates
    THEN o.PodTemplates[containerName]
    ELSE Nil

\* mutant: only a step's own container counts, an inherited name is dropped
StepContainerNameOwn(step, containerName) == step.container

\* the container name and the directory a step passes on (lines 281-285)
StepContainerName(step, containerName) ==
    IF step.container # "" THEN step.container ELSE containerName

\* mutant: the dir override applied whether or not the step names a container
StepDirIndependent(step, dir) ==
    IF step.dir # <<>> THEN step.dir ELSE dir

StepDir(step, dir) ==
    IF step.container # "" THEN dir
    ELSE IF step.dir # <<>> THEN step.dir
    ELSE dir

\* mutant: the whole "./" is trimmed, so that "./b" gives "/workspaceb"
WorkingDirTrimDotSlash(dir) ==
    LET d1 == IF HasPrefix(dir, <<".", Slash>>)
              THEN WorkspaceRoot \o TrimPrefix(dir, <<".", Slash>>)
              ELSE dir
    IN  IF ~IsAbs(d1) THEN Join(WorkspaceRoot, d1) ELSE d1

\* the working directory of a step (lines 307-312)
WorkingDir(dir) ==
    LET d1 == IF HasPrefix(dir, <<".", Slash>>)
              THEN WorkspaceRoot \o TrimPrefix(dir, <<".">>)
              ELSE dir
    IN  IF ~IsAbs(d1) THEN Join(WorkspaceRoot, d1) ELSE d1

\* c := containers[0] and what lines 301-316 make of it
StepContainer(c0, command, dir) ==
    LET c1 == removeUnnecessaryVolumes(c0)
        c2 == removeUnnecessaryEnvVars(c1)
    IN  [c2 EXCEPT !.command = <<"/bin/sh">>,
                   !.args = <<"-c", command>>,
                   !.workingDir = dir,
                   !.image = RunnerImage]

\* mutant: c aliases containers[0], so what is written to c is written to the template
TemplatesAfterStepAliased(templates, templateName, c) ==
    [templates EXCEPT ![templateName].containers[1] = c]

\* c is a copy of containers[0] (a struct value, its Env and VolumeMounts replaced
\* by fresh slices): the pod template keeps what it held
TemplatesAfterStep(templates, templateName, c) == templates

RECURSIVE createSteps(_, _, _, _)
RECURSIVE createChildSteps(_, _, _, _, _)

\* mutant: the steps of a child are put before what was appended so far
createChildStepsPrepending(o, children, containerName, dir, steps) ==
    IF children = <<>> THEN [steps |-> steps, err |-> NoErr, o |-> o]
    ELSE Only({ IF r.err # NoErr THEN [steps |-> steps, err |-> r.err, o |-> r.o]
                ELSE createChildSteps(r.o, Tail(children), containerName, dir,
                                      r.steps \o steps)
                : r \in {createSteps(o, Head(children), containerName, dir)} })

\* the loop over step.Steps (lines 320-326); steps holds what was appended so far
createChildSteps(o, children, containerName, dir, steps) ==
    IF children = <<>> THEN [steps |-> steps, err |-> NoErr, o |-> o]
    ELSE Only({ IF r.err # NoErr THEN [steps |-> steps, err |-> r.err, o |-> r.o]
                ELSE createChildSteps(r.o, Tail(children), containerName, dir,
                                      steps \o r.steps)
                : r \in {createSteps(o, Head(children), containerName, dir)} })

createSteps(o, step, containerName0, dir0) ==
    LET containerName1 == StepContainerName(step, containerName0)
        dir1 == StepDir(step, dir0)
    IN  IF step.command # <<>> THEN
            LET containerName == IF containerName1 = "" THEN defaultContainerName
                                 ELSE containerName1
                found == ~IsNil(PodTemplateOf(o, containerName))
                o1 == IF found THEN o
                      ELSE [o EXCEPT !.MissingPodTemplates = @ \cup {containerName}]
                templateName == IF found THEN containerName ELSE defaultContainerName
                podTemplate == PodTemplateOf(o, templateName)
            IN  IF IsNil(podTemplate) THEN
                    [steps |-> <<>>, err |-> Panic, o |-> o1]
                ELSE IF Len(podTemplate.containers) = 0 THEN
                    [steps |-> <<>>, err |-> ErrNoContainers(containerName), o |-> o1]
                ELSE
                    LET dir == WorkingDir(dir1)
                        c == StepContainer(podTemplate.containers[1], step.command, dir)
                        o2 == [o1 EXCEPT !.PodTemplates =
                                   TemplatesAfterStep(@, templateName, c)]
                    IN  createChildSteps(o2, step.steps, containerName, dir, <<c>>)
        ELSE createChildSteps(o, step.steps, containerName1, dir1, <<>>)

-----------------------------------------------------------------------------
(* generatePipeline, generateTask *)

\* the loop over l.Steps (lines 239-245)
RECURSIVE createRootSteps(_, _, _, _, _)
createRootSteps(o, roots, container, dir, steps) ==
    IF roots = <<>> THEN [steps |-> steps, err |-> NoErr, o |-> o]
    ELSE Only({ IF r.err # NoErr THEN [steps |-> steps, err |-> r.err, o |-> r.o]
                ELSE createRootSteps(r.o, Tail(roots), container, dir, steps \o r.steps)
                : r \in {createSteps(o, Head(roots), container, dir)} })

\* the loop over lifecycles.All() (lines 235-246)
RECURSIVE createLifecycleSteps(_, _, _, _, _)
createLifecycleSteps(o, all, container, dir, steps) ==
    IF all = <<>> THEN [steps |-> steps, err |-> NoErr, o |-> o]
    ELSE IF IsNil(Head(all)) THEN
        createLifecycleSteps(o, Tail(all), container, dir, steps)
    ELSE Only({ IF r.err # NoErr THEN r
                ELSE createLifecycleSteps(r.o, Tail(all), container, dir, r.steps)
                : r \in {createRootSteps(o, Head(all).steps, container, dir, steps)} })

\* the Task of lines 247-259
Task(languageName, templateKind, steps) ==
    [apiVersion |-> "pipeline.knative.dev/v1alpha1",
     kind |-> "Task",
     name |-> ToValidName(<<"jx-task-", languageName, "-", templateKind>>),
     steps |-> steps]

\* mutant: nil lifecycles yield an empty task instead of the early return
generatePipelineEmptyTask(o, languageName, config, lifecycles, templateKind) ==
    IF IsNil(lifecycles)
    THEN [err |-> NoErr, o |-> o, tasks |-> <<Task(languageName, templateKind, <<>>)>>]
    ELSE Only({ IF r.err # NoErr THEN [err |-> r.err, o |-> r.o, tasks |-> <<>>]
                ELSE [err |-> NoErr, o |-> r.o,
                      tasks |-> <<Task(languageName, templateKind, r.steps)>>]
                : r \in {createLifecycleSteps(o, lifecycles.all, config.agent.container,
                                              WorkspaceRoot, <<>>)} })

\* generatePipeline: err, the receiver after the call, and the tasks it emitted
generatePipeline(o, languageName, config, lifecycles, templateKind) ==
    IF IsNil(lifecycles) THEN [err |-> NoErr, o |-> o, tasks |-> <<>>]
    ELSE Only({ IF r.err # NoErr THEN [err |-> r.err, o |-> r.o, tasks |-> <<>>]
                ELSE [err |-> NoErr, o |-> r.o,
                      tasks |-> <<Task(languageName, templateKind, r.steps)>>]
                : r \in {createLifecycleSteps(o, lifecycles.all, config.agent.container,
                                              WorkspaceRoot, <<>>)} })

\* mutant: the default case falls back to the release lifecycles
SelectLifecyclesDefaultRelease(kind, pipelines) ==
    CASE kind = PipelineKindPullRequest ->
             [found |-> TRUE, lifecycles |-> pipelines.pullRequest]
      [] kind = PipelineKindFeature -> [found |-> TRUE, lifecycles |-> pipelines.feature]
      [] OTHER -> [found |-> TRUE, lifecycles |-> pipelines.release]

\* the switch of generateTask: found is FALSE in the default case
SelectLifecycles(kind, pipelines) ==
    CASE kind = PipelineKindRelease -> [found |-> TRUE, lifecycles |-> pipelines.release]
      [] kind = PipelineKindPullRequest ->
             [found |-> TRUE, lifecycles |-> pipelines.pullRequest]
      [] kind = PipelineKindFeature -> [found |-> TRUE, lifecycles |-> pipelines.feature]
      [] OTHER -> [found |-> FALSE, lifecycles |-> Nil]

generateTask(o, name, config) ==
    LET sel == SelectLifecycles(o.PipelineKind, config.pipelines)
    IN  IF ~sel.found
        THEN [err |-> ErrUnknownKind(o.PipelineKind), o |-> o, tasks |-> <<>>]
        ELSE generatePipeline(o, name, config, sel.lifecycles, o.PipelineKind)

-----------------------------------------------------------------------------
(* Inputs: pod templates *)

EnvVar(name) == [name |-> name, value |-> "v"]

EnvGitToken == <<"G", "I", "T", "_", "T">>
EnvDockerHost == <<"D", "O", "C", "K", "E", "R", "_", "H">>
EnvXdgConfig == <<"X", "D", "G", "_", "C">>
EnvPath == <<"P", "A", "T", "H">>
EnvGit == <<"G", "I", "T">>
EnvMyGit == <<"M", "Y", "_", "G", "I", "T", "_">>
EnvLowerGit == <<"g", "i", "t", "_", "T">>

Container(name, image, env, volumeMounts) ==
    [name |-> name, image |-> image, command |-> <<"cat">>, args |-> <<>>,
     workingDir |-> <<"/", "h">>, env |-> env, volumeMounts |-> volumeMounts]

Pod(containers) == [nil |-> FALSE, containers |-> containers]

MavenPod ==
    Pod(<<Container("maven", "old-image",
                    <<EnvVar(EnvGitToken), EnvVar(EnvPath), EnvVar(EnvDockerHost),
                      EnvVar(EnvXdgConfig), EnvVar(EnvGit)>>,
                    <<"workspace-volume", "docker-daemon">>)>>)

GoPod ==
    Pod(<<Container("go", "go-image", <<EnvVar(EnvMyGit), EnvVar(EnvPath)>>, <<>>),
          Container("sidecar", "sidecar-image", <<EnvVar(EnvLowerGit)>>, <<"cache">>)>>)

EmptyPod == Pod(<<>>)

\* a value of the ConfigMap: a pod's YAML, or the empty string
DataOf(pod) == [empty |-> FALSE, pod |-> pod]
EmptyData == [empty |-> TRUE]

DataFull == ("maven" :> DataOf(MavenPod)) @@ ("go" :> DataOf(GoPod))
DataWithEmptyPod == DataFull @@ ("empty" :> DataOf(EmptyPod))
DataNoDefault == ("go" :> DataOf(GoPod)) @@ ("empty" :> DataOf(EmptyPod))
DataDefaultEmptyPod == ("maven" :> DataOf(EmptyPod)) @@ ("go" :> DataOf(GoPod))
DataDefaultBlank == ("maven" :> EmptyData) @@ ("go" :> DataOf(GoPod))

-----------------------------------------------------------------------------
(* Inputs: pipelines.  A shape is a step tree whose steps say whether they are  *)
(* executable; Label gives every executable step its position as its command.  *)

MaxChildren == 2
MaxEnv == 2

Shape(exec, container, dir, steps) ==
    [exec |-> exec, container |-> container, dir |-> dir, steps |-> steps]

RECURSIVE Label(_, _)
Label(shape, path) ==
    [command |-> IF shape.exec THEN path ELSE <<>>,
     container |-> shape.container,
     dir |-> shape.dir,
     steps |-> [i \in 1..Len(shape.steps) |-> Label(shape.steps[i], Append(path, i))]]

Lifecycle(shapes, s) ==
    [nil |-> FALSE, steps |-> [r \in 1..Len(shapes) |-> Label(shapes[r], <<s, r>>)]]

\* a *PipelineLifecycles, by what All() returns: stages[s] is Nil or a sequence of shapes
Lifecycles(stages) ==
    [nil |-> FALSE,
     all |-> [s \in 1..Len(stages) |->
                 IF stages[s] = Nil THEN Nil ELSE Lifecycle(stages[s].roots, s)]]

Roots(shapes) == [nil |-> FALSE, roots |-> shapes]

Config(agentContainer, release, pullRequest, feature) ==
    [agent |-> [container |-> agentContainer],
     pipelines |-> [release |-> release, pullRequest |-> pullRequest,
                    feature |-> feature]]

Input(kind, config, data, out, pack) ==
    [kind |-> kind, config |-> config, data |-> data, out |-> out, pack |-> pack]

DirBar == <<".", "/", "b">>
DirBaz == <<"a">>
DirAbs == <<"/", "x">>

SeqsUpTo(S, n) == UNION {[1..k -> S] : k \in 0..n}

\* chains root > mid > leaf, with a sibling after the mid and one after the root
InheritanceInputs ==
    LET Attr == {"", "go", "nope"} \X {<<>>, DirBar, DirBaz}
        LeafAttr == {"", "go"} \X {<<>>, DirBar}
    IN  { Input(PipelineKindRelease,
                Config(agent,
                       Lifecycles(<<Roots(<<
                           Shape(e[1], a[1][1], a[1][2], <<
                               Shape(e[2], a[2][1], a[2][2], <<
                                   Shape(TRUE, l[1], l[2], <<>>)>>),
                               Shape(TRUE, "", <<>>, <<>>)>>),
                           Shape(TRUE, "", <<>>, <<>>)>>)>>),
                       Nil, Nil),
                DataFull, "", "go")
          : e \in [1..2 -> BOOLEAN], a \in [1..2 -> Attr], l \in LeafAttr,
            agent \in {"", "go"} }

\* forests over two stages
OrderInputs ==
    LET Leaf == {Shape(e, "", <<>>, <<>>) : e \in BOOLEAN}
        Tree == {Shape(e, "", <<>>, c) : e \in BOOLEAN, c \in SeqsUpTo(Leaf, MaxChildren)}
        Stage1 == {Nil} \cup {Roots(<<t>>) : t \in Tree}
                        \cup {Roots(<<t, l>>) : t \in Tree, l \in Leaf}
        Stage2 == {Nil} \cup {Roots(<<t>>) : t \in Tree}
    IN  { Input(PipelineKindRelease,
                Config("", Lifecycles(<<s1, Nil, s2>>), Nil, Nil),
                DataFull, "", "go")
          : s1 \in Stage1, s2 \in Stage2 }

\* executable steps over two stages, their containers resolved against every ConfigMap
ErrorInputs ==
    LET Names == {"", "go", "empty", "nope"}
    IN  { Input(PipelineKindRelease,
                Config("",
                       Lifecycles(<<Roots(<<
                           Shape(TRUE, n[1], <<>>, <<Shape(TRUE, n[2], <<>>, <<>>)>>),
                           Shape(TRUE, n[3], <<>>, <<>>)>>),
                           Roots(<<Shape(TRUE, n[4], <<>>, <<>>)>>)>>),
                       Nil, Nil),
                data, "", "go")
          : n \in [1..4 -> Names],
            data \in {DataFull, DataWithEmptyPod, DataNoDefault, DataDefaultEmptyPod,
                      DataDefaultBlank} }

\* every kind against every way the three lifecycle sets are nil or not
KindInputs ==
    LET One == Lifecycles(<<Roots(<<Shape(TRUE, "", <<>>, <<>>)>>)>>)
        Two == Lifecycles(<<Nil, Roots(<<Shape(TRUE, "nope", <<>>, <<>>),
                                         Shape(TRUE, "go", DirBar, <<>>)>>)>>)
        None == Lifecycles(<<Nil, Roots(<<Shape(FALSE, "", <<>>, <<>>)>>)>>)
    IN  { Input(kind, Config("", l[1], l[2], l[3]), DataFull, out, pack)
          : kind \in {PipelineKindRelease, PipelineKindPullRequest, PipelineKindFeature,
                      "Release", "pullrequest", "bogus"},
            l \in [1..3 -> {Nil, One, Two, None}],
            out \in {"", "task.yaml"}, pack \in {"go", "Go"} }

\* the directories of a step and of its child
PathInputs ==
    LET Dirs == {<<>>, DirBar, DirBaz, DirAbs,
                 <<".", "/">>, <<".">>, <<".", ".">>, <<".", ".", "/", "a">>,
                 <<".", "a">>, <<"a", "/">>, <<"a", "/", ".", "/", "b">>,
                 <<".", "/", ".", "/", "b">>, <<"/", ".", "/", "x">>,
                 WorkspaceRoot \o <<"/", "f">>, <<"/">>}
    IN  { Input(PipelineKindRelease,
                Config("",
                       Lifecycles(<<Roots(<<
                           Shape(e, "", d[1], <<Shape(TRUE, "", d[2], <<>>)>>)>>)>>),
                       Nil, Nil),
                DataFull, "", "go")
          : e \in BOOLEAN, d \in [1..2 -> Dirs] }

\* the environment and the volume mounts of the template's containers
SanitizeInputs ==
    LET EnvNames == {EnvGitToken, EnvDockerHost, EnvXdgConfig, EnvPath, EnvGit,
                     EnvMyGit, EnvLowerGit}
        Envs == SeqsUpTo({EnvVar(n) : n \in EnvNames}, MaxEnv)
        Mounts == {<<>>, <<"workspace-volume">>}
    IN  { Input(PipelineKindRelease,
                Config(agent,
                       Lifecycles(<<Roots(<<Shape(TRUE, "", <<>>, <<>>)>>)>>),
                       Nil, Nil),
                ("maven" :> DataOf(Pod(<<Container("maven", "old-image", env, m)>>
                                       \o more))),
                "", "go")
          : env \in Envs, m \in Mounts, agent \in {"", "other"},
            more \in {<<>>, GoPod.containers} }

InitFrom(inputs) ==
    /\ pc = "start"
    /\ \E in \in inputs :
          /\ Pack = in.pack
          /\ PipelineKind = in.kind
          /\ OutputFile = in.out
          /\ pipelineConfig = in.config
          /\ cmData = in.data
    /\ PodTemplates = << >>
    /\ MissingPodTemplates = {}
    /\ result = NoErr
    /\ printed = <<>>
    /\ written = <<>>

-----------------------------------------------------------------------------
(* The run *)

Init ==
    \/ InitFrom(InheritanceInputs)
    \/ InitFrom(OrderInputs)
    \/ InitFrom(ErrorInputs)
    \/ InitFrom(KindInputs)
    \/ InitFrom(PathInputs)
    \/ InitFrom(SanitizeInputs)

\* loadPodTemplates, and the reset of MissingPodTemplates that follows it in Run
LoadPodTemplates ==
    /\ pc = "start"
    /\ PodTemplates' = [k \in {n \in DOMAIN cmData : ~cmData[n].empty} |-> cmData[k].pod]
    /\ MissingPodTemplates' = {}
    /\ pc' = "loaded"
    /\ UNCHANGED <<Pack, PipelineKind, OutputFile, pipelineConfig, cmData, result,
                   printed, written>>

\* the receiver o, as generateTask reads and writes it
Receiver ==
    [PipelineKind |-> PipelineKind, PodTemplates |-> PodTemplates,
     MissingPodTemplates |-> MissingPodTemplates]

\* o.generateTask(name, pipelineConfig), the marshalled Task going to the console
\* or to OutputFile
GenerateTask ==
    /\ pc = "loaded"
    /\ \E r \in {generateTask(Receiver, Pack, pipelineConfig)} :
           /\ result' = r.err
           /\ PodTemplates' = r.o.PodTemplates
           /\ MissingPodTemplates' = r.o.MissingPodTemplates
           /\ printed' = IF OutputFile = "" THEN printed \o r.tasks ELSE printed
           /\ written' = IF OutputFile = "" THEN written ELSE written \o r.tasks
    /\ pc' = "done"
    /\ UNCHANGED <<Pack, PipelineKind, OutputFile, pipelineConfig, cmData>>

Next == LoadPodTemplates \/ GenerateTask

Spec == Init /\ [][Next]_vars

-----------------------------------------------------------------------------
(* What the claims speak of: the steps of the selected lifecycle set by their   *)
(* position.  A position <<s, r, i, ...>> is stage s, root step r, child i, ... *)

Selected == SelectLifecycles(PipelineKind, pipelineConfig.pipelines)

SelectedAll == Selected.lifecycles.all

\* the run is over, and it was a run over a lifecycle set
Compiled == pc = "done" /\ Selected.found /\ ~IsNil(Selected.lifecycles)

\* the tasks handed to the output sink
Emitted == printed \o written

Succeeded == Compiled /\ result = NoErr /\ Len(Emitted) = 1

OutSteps == Emitted[1].steps

RECURSIVE PositionsUnder(_, _)
PositionsUnder(step, p) ==
    {p} \cup UNION {PositionsUnder(step.steps[i], Append(p, i)) : i \in 1..Len(step.steps)}

Positions ==
    UNION {UNION {PositionsUnder(SelectedAll[s].steps[r], <<s, r>>)
                  : r \in 1..Len(SelectedAll[s].steps)}
           : s \in {t \in 1..Len(SelectedAll) : ~IsNil(SelectedAll[t])}}

RECURSIVE Descend(_, _)
Descend(step, rest) ==
    IF rest = <<>> THEN step ELSE Descend(step.steps[Head(rest)], Tail(rest))

StepAt(p) == Descend(SelectedAll[p[1]].steps[p[2]], SubSeq(p, 3, Len(p)))

Executable(p) == StepAt(p).command # <<>>

ExecPositions == {p \in Positions : Executable(p)}

IsAncestor(q, p) == Len(q) < Len(p) /\ SubSeq(p, 1, Len(q)) = q

\* q comes before p in pre-order: an ancestor, or to the left at the first difference
Before(q, p) ==
    \/ IsAncestor(q, p)
    \/ \E k \in 1..Len(q) :
          /\ k <= Len(p)
          /\ q[k] < p[k]
          /\ SubSeq(q, 1, k - 1) = SubSeq(p, 1, k - 1)

Rank(p) == 1 + Cardinality({q \in ExecPositions : Before(q, p)})

\* the emitted container at the place of the executable step at p
OutOf(p) == OutSteps[Rank(p)]

\* the step at p and its ancestors
Line(p) == {SubSeq(p, 1, k) : k \in 2..Len(p)}

Nearest(S) == CHOOSE q \in S : \A r \in S : Len(r) <= Len(q)

\* the container name in force at p: the nearest declared one, else the agent's,
\* else the default
NameAt(p) ==
    LET S == {q \in Line(p) : StepAt(q).container # ""}
    IN  IF S # {} THEN StepAt(Nearest(S)).container
        ELSE IF pipelineConfig.agent.container # "" THEN pipelineConfig.agent.container
        ELSE defaultContainerName

\* the directory in force at p, as declared: that of the nearest step of the line
\* that declares a dir and no container, else the root working path
DirAt(p) ==
    LET S == {q \in Line(p) : StepAt(q).container = "" /\ StepAt(q).dir # <<>>}
    IN  IF S # {} THEN StepAt(Nearest(S)).dir ELSE WorkspaceRoot

Absent(name) == name \notin DOMAIN PodTemplates

\* the template a name resolves to: its own, else the default one
TemplateNameFor(name) == IF Absent(name) THEN defaultContainerName ELSE name

\* the executable steps whose resolution yields no template at all
NoTemplate(p) == Absent(TemplateNameFor(NameAt(p)))

\* the executable steps whose resolved template has zero containers
ZeroContainers(p) ==
    /\ ~NoTemplate(p)
    /\ Len(PodTemplates[TemplateNameFor(NameAt(p))].containers) = 0

Skeleton(p) == PodTemplates[TemplateNameFor(NameAt(p))].containers[1]

\* a step that declares neither container nor dir
DeclaresNothing(p) == StepAt(p).container = "" /\ StepAt(p).dir = <<>>

\* the directory of the nearest step of the line that declares a dir, whatever
\* else it declares
ClaimedDirAt(p) ==
    LET S == {q \in Line(p) : StepAt(q).dir # <<>>}
    IN  IF S # {} THEN StepAt(Nearest(S)).dir ELSE WorkspaceRoot

\* the pipeline with the dir erased on every step that declares a container
RECURSIVE WithoutIgnoredDir(_)
WithoutIgnoredDir(step) ==
    [command |-> step.command,
     container |-> step.container,
     dir |-> IF step.container # "" THEN <<>> ELSE step.dir,
     steps |-> [i \in 1..Len(step.steps) |-> WithoutIgnoredDir(step.steps[i])]]

LifecyclesWithoutIgnoredDir(l) ==
    IF IsNil(l) THEN l
    ELSE [l EXCEPT !.all =
             [s \in 1..Len(l.all) |->
                 IF IsNil(l.all[s]) THEN l.all[s]
                 ELSE [l.all[s] EXCEPT !.steps =
                          [r \in 1..Len(l.all[s].steps) |->
                              WithoutIgnoredDir(l.all[s].steps[r])]]]]

ConfigWithoutIgnoredDir ==
    [pipelineConfig EXCEPT
        !.pipelines.release = LifecyclesWithoutIgnoredDir(@),
        !.pipelines.pullRequest = LifecyclesWithoutIgnoredDir(@),
        !.pipelines.feature = LifecyclesWithoutIgnoredDir(@)]

\* the environment entries that stay
StartsWith(name, text) ==
    /\ Len(name) >= Len(text)
    /\ \A i \in 1..Len(text) : name[i] = text[i]

Kept(e) ==
    /\ ~StartsWith(e.name, <<"G", "I", "T", "_">>)
    /\ ~StartsWith(e.name, <<"D", "O", "C", "K", "E", "R", "_">>)
    /\ ~StartsWith(e.name, <<"X", "D", "G", "_">>)

\* the names of executable steps that have no template
AbsentNames == {NameAt(p) : p \in ExecPositions} \ DOMAIN PodTemplates

\* the first executable step, in pre-order, whose template has zero containers
FirstZeroContainers ==
    CHOOSE p \in ExecPositions :
        /\ ZeroContainers(p)
        /\ \A q \in ExecPositions : ZeroContainers(q) => (q = p \/ Before(p, q))

-----------------------------------------------------------------------------
(* C1: when compilation succeeds, the emitted steps are exactly the executable *)
(* steps in pre-order (parent before children, children and roots left to      *)
(* right, stages in declared order, nil stages skipped): one container per     *)
(* executable step, none for the others, none duplicated or reordered.         *)
C1_EmittedInPreOrder ==
    Succeeded =>
        /\ Len(OutSteps) = Cardinality(ExecPositions)
        /\ \A p \in ExecPositions : OutOf(p).args = <<"-c", StepAt(p).command>>

\* a run that emitted executable children after an executable parent, a sibling
\* after them, a step under a step that is not executable, a nil stage between two
C1_Witness ==
    /\ Succeeded
    /\ Len(SelectedAll) = 3 /\ IsNil(SelectedAll[2])
    /\ {<<1, 1>>, <<1, 1, 1>>, <<1, 1, 2>>, <<1, 2>>, <<3, 1, 2>>} \subseteq ExecPositions
    /\ <<3, 1>> \in Positions \ ExecPositions
    /\ Len(OutSteps) = 5

(* C5: a kind other than release, pull-request and feature fails with an error *)
(* that lists the valid kinds; nothing is flattened, MissingPodTemplates stays *)
(* as it was and no task is emitted.                                           *)
C5_UnknownKindFails ==
    (pc = "done" /\ PipelineKind \notin {"release", "pull-request", "feature"}) =>
        /\ result.type = "error"
        /\ result.msg = "Unknown pipeline kind"
        /\ result.kind = PipelineKind
        /\ result.supported = <<"release", "pull-request", "feature">>
        /\ MissingPodTemplates = {}
        /\ printed = <<>>
        /\ written = <<>>

\* an unknown kind, with lifecycle sets that would record a missing template
C5_Witness ==
    /\ pc = "done"
    /\ PipelineKind = "Release"
    /\ ~IsNil(pipelineConfig.pipelines.release)
    /\ Len(pipelineConfig.pipelines.release.all) = 2
    /\ \E r \in 1..Len(pipelineConfig.pipelines.release.all[2].steps) :
          pipelineConfig.pipelines.release.all[2].steps[r].container = "nope"
    /\ result.type = "error"

(* C3, as claimed: a recognized kind whose lifecycle set is nil compiles without *)
(* error to an empty task, named from the pack and the kind, that is handed to  *)
(* the output sink.                                                             *)
C3_AsClaimed ==
    (pc = "done" /\ Selected.found /\ IsNil(Selected.lifecycles)) =>
        /\ result = NoErr
        /\ Len(Emitted) = 1
        /\ Emitted[1].steps = <<>>
        /\ Emitted[1].name = ToValidName(<<"jx-task-", Pack, "-", PipelineKind>>)

(* C3, amended: a recognized kind whose lifecycle set is nil returns no error   *)
(* and emits nothing: no task, not even an empty one, reaches the output sink.  *)
C3_NilLifecyclesEmitNothing ==
    (pc = "done" /\ Selected.found /\ IsNil(Selected.lifecycles)) =>
        /\ result = NoErr
        /\ printed = <<>>
        /\ written = <<>>
        /\ MissingPodTemplates = {}

\* a run for pull-request whose lifecycle set is nil while the others are not
C3_Witness ==
    /\ pc = "done"
    /\ PipelineKind = "pull-request"
    /\ IsNil(pipelineConfig.pipelines.pullRequest)
    /\ ~IsNil(pipelineConfig.pipelines.release)
    /\ ~IsNil(pipelineConfig.pipelines.feature)
    /\ OutputFile = "task.yaml"
    /\ result = NoErr

(* C6, as claimed: an executable step that declares neither container nor dir  *)
(* is compiled with the container of its nearest ancestor that set one and the *)
(* working directory of its nearest ancestor with a non-empty dir, whatever    *)
(* else that ancestor declares; with no such ancestor it gets the agent's      *)
(* container (the default name when that is empty) and /workspace.             *)
C6_AsClaimed ==
    Succeeded =>
        \A p \in ExecPositions :
            DeclaresNothing(p) =>
                /\ OutOf(p).name = Skeleton(p).name
                /\ OutOf(p).workingDir = WorkingDir(ClaimedDirAt(p))

(* C6, amended: the working directory is that of the nearest ancestor that     *)
(* declares a non-empty dir and no container (a dir declared together with a   *)
(* container is not inherited); the rest as claimed.                           *)
C6_InheritsFromNearestAncestor ==
    Succeeded =>
        \A p \in ExecPositions :
            DeclaresNothing(p) =>
                /\ OutOf(p).name = Skeleton(p).name
                /\ OutOf(p).workingDir = WorkingDir(DirAt(p))

\* a step declaring nothing under a parent that declares a container and a dir,
\* under a root that declares a dir alone; the agent names a container
C6_Witness ==
    /\ Succeeded
    /\ pipelineConfig.agent.container = "go"
    /\ <<1, 1, 1, 1>> \in ExecPositions
    /\ DeclaresNothing(<<1, 1, 1, 1>>)
    /\ StepAt(<<1, 1, 1>>).container = "nope" /\ StepAt(<<1, 1, 1>>).dir = DirBaz
    /\ StepAt(<<1, 1>>).container = "" /\ StepAt(<<1, 1>>).dir = DirBar
    /\ OutOf(<<1, 1, 1, 1>>).name = "maven"
    /\ OutOf(<<1, 2>>).name = "go"
    /\ OutOf(<<1, 2>>).workingDir = WorkspaceRoot

(* C9: a step that declares both a container and a dir has its dir ignored: it *)
(* and its descendants compile as if the dir were not there, with the          *)
(* directory inherited from above; a declared dir takes effect only on a step  *)
(* that declares no container.                                                 *)
C9_ContainerOverrideIgnoresDir ==
    Succeeded =>
        /\ generateTask([Receiver EXCEPT !.MissingPodTemplates = {}], Pack,
                        ConfigWithoutIgnoredDir).tasks = Emitted
        /\ \A p \in ExecPositions :
              /\ (StepAt(p).container # "" /\ Len(p) = 2)
                     => OutOf(p).workingDir = WorkspaceRoot
              /\ (StepAt(p).container = "" /\ StepAt(p).dir # <<>>)
                     => OutOf(p).workingDir = WorkingDir(StepAt(p).dir)

\* a root step with a container and a dir, and below it a step that declares a
\* dir alone and one that declares nothing
C9_Witness ==
    /\ Succeeded
    /\ {<<1, 1>>, <<1, 1, 1>>, <<1, 1, 2>>} \subseteq ExecPositions
    /\ StepAt(<<1, 1>>).container = "go" /\ StepAt(<<1, 1>>).dir = DirBaz
    /\ StepAt(<<1, 1, 1>>).container = "" /\ StepAt(<<1, 1, 1>>).dir = DirBar
    /\ DeclaresNothing(<<1, 1, 2>>)
    /\ OutOf(<<1, 1>>).workingDir = WorkspaceRoot
    /\ OutOf(<<1, 1, 2>>).workingDir = WorkspaceRoot
    /\ OutOf(<<1, 1, 1>>).workingDir = WorkspaceRoot \o <<"/", "b">>

(* C7: the working directory of every emitted step is absolute and follows the *)
(* path rules on the step's effective dir: "./x" gives /workspace/x, any other *)
(* relative dir is joined under /workspace, an absolute dir is kept; applying  *)
(* the rules again changes nothing.                                            *)
C7_WorkingDirRules ==
    Succeeded =>
        \A p \in ExecPositions :
            LET d == DirAt(p)
                w == OutOf(p).workingDir
            IN  /\ Len(w) > 0 /\ w[1] = "/"
                /\ (Len(d) >= 2 /\ d[1] = "." /\ d[2] = "/")
                       => w = WorkspaceRoot \o Tail(d)
                /\ (d[1] # "/" /\ ~(Len(d) >= 2 /\ d[1] = "." /\ d[2] = "/"))
                       => w = Join(WorkspaceRoot, d)
                /\ d[1] = "/" => w = d
                /\ WorkingDir(w) = w

\* "./b" on an executable root gives /workspace/b, which its child inherits
C7_Witness ==
    /\ Succeeded
    /\ {<<1, 1>>, <<1, 1, 1>>} \subseteq ExecPositions
    /\ StepAt(<<1, 1>>).dir = <<".", "/", "b">>
    /\ StepAt(<<1, 1, 1>>).dir = <<>>
    /\ StepAt(<<1, 1>>).container = ""
    /\ OutOf(<<1, 1>>).workingDir = WorkspaceRoot \o <<"/", "b">>
    /\ OutOf(<<1, 1, 1>>).workingDir = WorkspaceRoot \o <<"/", "b">>

(* C8: every emitted step has no volume mounts, the environment of the         *)
(* template's first container less the names starting with GIT_, DOCKER_ or    *)
(* XDG_ (order kept, nothing added), command /bin/sh with args -c and the      *)
(* step's command, and the fixed runner image.                                 *)
C8_SanitizedContainer ==
    Succeeded =>
        \A p \in ExecPositions :
            /\ OutOf(p).volumeMounts = <<>>
            /\ OutOf(p).env = SelectSeq(Skeleton(p).env, Kept)
            /\ OutOf(p).command = <<"/bin/sh">>
            /\ OutOf(p).args = <<"-c", StepAt(p).command>>
            /\ OutOf(p).image = "jenkinsxio/jx:latest"
            /\ OutOf(p).name = Skeleton(p).name

\* a template of two containers, the first with a volume mount and an
\* environment of a dropped name and a kept one that only resembles a dropped one
C8_Witness ==
    /\ Succeeded
    /\ <<1, 1>> \in ExecPositions
    /\ DOMAIN PodTemplates = {"maven"}
    /\ Len(PodTemplates["maven"].containers) > 1
    /\ Skeleton(<<1, 1>>).volumeMounts # <<>>
    /\ Skeleton(<<1, 1>>).env = <<EnvVar(EnvMyGit), EnvVar(EnvXdgConfig)>>
    /\ OutOf(<<1, 1>>).env = <<EnvVar(EnvMyGit)>>

(* C10: a compilation, successful or failed, leaves the pod templates and the  *)
(* step tree as they were; every emitted step is built from the template as it *)
(* was before the run and from the declarations on its own line of ancestors,  *)
(* whatever its siblings and the steps before it resolved to or declared.      *)
C10_TemplatesAndTreeUntouched ==
    [][pc = "loaded" =>
          /\ PodTemplates' = PodTemplates
          /\ pipelineConfig' = pipelineConfig
          /\ Succeeded' =>
                 \A p \in ExecPositions :
                     OutOf(p)' = StepContainer(Skeleton(p), StepAt(p).command,
                                               WorkingDir(DirAt(p)))]_vars

\* two sibling steps and a later root step resolved to the same template, which
\* holds volume mounts and dropped variables; the first sibling got there by the
\* fallback, under a root that declares a dir
C10_Witness ==
    /\ Succeeded
    /\ {<<1, 1>>, <<1, 1, 1>>, <<1, 1, 2>>, <<1, 2>>} \subseteq ExecPositions
    /\ StepAt(<<1, 1>>).container = "" /\ StepAt(<<1, 1>>).dir = DirBar
    /\ StepAt(<<1, 1, 1>>).container = "nope"
    /\ MissingPodTemplates = {"nope"}
    /\ \A p \in {<<1, 1, 1>>, <<1, 1, 2>>, <<1, 2>>} : OutOf(p).name = "maven"
    /\ OutOf(<<1, 1, 2>>).workingDir = WorkspaceRoot \o <<"/", "b">>
    /\ OutOf(<<1, 2>>).workingDir = WorkspaceRoot
    /\ PodTemplates["maven"].containers[1].volumeMounts # <<>>

(* C2: an executable step whose container name is absent from the templates is *)
(* compiled from the default template's first container, the compile still     *)
(* succeeds and the name is recorded in MissingPodTemplates (once), also when   *)
(* the default template itself is absent or the absent name is the default one. *)
C2_AsClaimed ==
    (Compiled /\ \A p \in ExecPositions : ~ZeroContainers(p)) =>
        /\ result = NoErr
        /\ Len(Emitted) = 1
        /\ MissingPodTemplates = AbsentNames
        /\ \A p \in ExecPositions :
              Absent(NameAt(p)) =>
                  OutOf(p).name = PodTemplates[defaultContainerName].containers[1].name

(* C4: if the template resolved for any executable step of the selected        *)
(* lifecycle set has zero containers, compilation returns an error and emits   *)
(* no task, whatever was flattened before; no step after the first such step   *)
(* is processed.                                                               *)
C4_AsClaimed ==
    (Compiled /\ \E p \in ExecPositions : ZeroContainers(p)) =>
        /\ result = ErrNoContainers(NameAt(FirstZeroContainers))
        /\ printed = <<>>
        /\ written = <<>>
        /\ MissingPodTemplates =
               {NameAt(q) : q \in {r \in ExecPositions :
                                      r = FirstZeroContainers
                                          \/ Before(r, FirstZeroContainers)}}
                   \ DOMAIN PodTemplates

====
